---- MODULE Spec2Model ----
(***************************************************************************)
(* Model of the limit order book of src/src/lib.rs: OrderBook::add_order   *)
(* and its two matchers, match_bid_order and match_ask_order.              *)
(*                                                                         *)
(* A ladder (BTreeMap<Decimal, VecDeque<Order>>) is a function whose       *)
(* DOMAIN is the set of price keys present in the map and whose values are *)
(* the queues (sequences of orders, front first).  Decimal prices and      *)
(* quantities are integers: only comparison, min and subtraction are used. *)
(* Order.timestamp is carried by the code but never read, and is left out. *)
(*                                                                         *)
(* One call of add_order is a run of steps: the call itself, then the      *)
(* iterations of the matcher's while loop (each iteration is the matching  *)
(* block followed by the conditional removal of a price level), then the   *)
(* code after the loop, which returns.  The loop is kept as steps because  *)
(* whether it is left at all is one of the properties checked.             *)
(***************************************************************************)
EXTENDS Integers, Sequences, FiniteSets

\* Bounds of the model.
MaxPrice == 2
MaxQty == 2
MaxOrders == 4
MaxUnitOrders == 6

Prices == 1..MaxPrice
Quantities == (0 - 1)..MaxQty
Sides == {"Bid", "Ask"}

VARIABLES
    asks,                 \* OrderBook.asks
    bids,                 \* OrderBook.bids
    pc,                   \* position of the running add_order call, "idle" if none
    order,                \* the incoming order (parameter bid / ask), quantity mutated
    trades,               \* the local Vec<Trade> of the running (or last) call
    should_remove_price,  \* the local of match_bid_order
    nextId,               \* the caller's supply of unique order ids
    asks0,                \* asks when the running (or last) call was entered
    bids0,                \* bids when the running (or last) call was entered
    q0,                   \* order.quantity when the call was entered
    rested,               \* every order that was ever stored in a ladder
    filled                \* ids of resting orders whose quantity reached zero

vars == <<asks, bids, pc, order, trades, should_remove_price, nextId,
          asks0, bids0, q0, rested, filled>>

----------------------------------------------------------------------------
\* Helpers: maps and queues.

EmptyMap == [k \in {} |-> <<>>]

SetMin(S) == CHOOSE x \in S : \A y \in S : x <= y
SetMax(S) == CHOOSE x \in S : \A y \in S : x >= y

\* BTreeMap::remove(&key): no effect when the key is absent.
MapRemove(m, key) == [k \in (DOMAIN m) \ {key} |-> m[k]]

\* entry(price).or_insert_with(VecDeque::new).push_back(o)
PushFront(m, o) ==
    [k \in (DOMAIN m) \cup {o.price} |->
        IF k = o.price
        THEN (IF k \in DOMAIN m THEN <<o>> \o m[k] ELSE <<o>>)
        ELSE m[k]]
PushBack(m, o) ==
    [k \in (DOMAIN m) \cup {o.price} |->
        IF k = o.price
        THEN (IF k \in DOMAIN m THEN Append(m[k], o) ELSE <<o>>)
        ELSE m[k]]

\* Decimal::min
Min(a, b) == IF a < b THEN a ELSE b

\* asks.first_entry(): the entry with the lowest key.
BestAskLast(m) == SetMax(DOMAIN m)
BestAsk(m) == SetMin(DOMAIN m)

\* bids.last_entry(): the entry with the highest key.
BestBid(m) == SetMax(DOMAIN m)

\* if ask_price > bid.price { break; }
BidBlockedInclusive(ask_price, bid_price) == ask_price >= bid_price
BidBlocked(ask_price, bid_price) == ask_price > bid_price

\* if bid_price < ask.price { break; }
AskBlockedInclusive(bid_price, ask_price) == bid_price <= ask_price
AskBlocked(bid_price, ask_price) == bid_price < ask_price

\* let trade_quantity = bid.quantity.min(ask.quantity);
TradeQuantity(taker_quantity, maker_quantity) == Min(taker_quantity, maker_quantity)

\* price: ask_price / price: bid_price  (the key of the matched level)
TradePriceTakerLimit(level_price, taker) == taker.price
TradePrice(level_price, taker) == level_price

\* Trade { maker_order_id, taker_order_id, price, quantity }
MakeTrade(maker, taker, level_price, trade_quantity) ==
    [maker_order_id |-> maker.id,
     taker_order_id |-> taker.id,
     price          |-> TradePrice(level_price, taker),
     quantity       |-> trade_quantity]

\* bid.quantity -= trade_quantity;  (the incoming order)
TakerAfterKept(quantity, trade_quantity) == quantity
TakerAfter(quantity, trade_quantity) == quantity - trade_quantity

\* ask.quantity -= trade_quantity; if ask.quantity == 0 { pop_front() }
QueueAfterNoPop(queue, trade_quantity) ==
    <<[Head(queue) EXCEPT !.quantity = @ - trade_quantity]>> \o Tail(queue)
QueueAfter(queue, trade_quantity) ==
    LET front == Head(queue)
        left  == front.quantity - trade_quantity
    IN  IF left = 0
        THEN Tail(queue)
        ELSE <<[front EXCEPT !.quantity = left]>> \o Tail(queue)

\* self.asks.remove(&bid.price)  (the key handed to remove)
BidRemoveKey(bid, ask_price) == bid.price

\* self.bids.remove(&ask.price)
AskRemoveKey(ask, bid_price) == ask.price

\* if bid.quantity > Decimal::ZERO  (the remainder rests)
HasRemainderOrZero(quantity) == quantity >= 0
HasRemainder(quantity) == quantity > 0

----------------------------------------------------------------------------
Init ==
    /\ asks = EmptyMap
    /\ bids = EmptyMap
    /\ pc = "idle"
    /\ order = [id |-> 0, price |-> 1, quantity |-> 0, side |-> "Bid"]
    /\ trades = <<>>
    /\ should_remove_price = FALSE
    /\ nextId = 1
    /\ asks0 = EmptyMap
    /\ bids0 = EmptyMap
    /\ q0 = 0
    /\ rested = {}
    /\ filled = {}

\* add_order: dispatch on the side; the matcher starts with no trades.
AddOrder(side, price, quantity) ==
    /\ pc = "idle"
    /\ order' = [id |-> nextId, price |-> price, quantity |-> quantity, side |-> side]
    /\ pc' = IF side = "Bid" THEN "bid_loop" ELSE "ask_loop"
    /\ trades' = <<>>
    /\ should_remove_price' = FALSE
    /\ nextId' = nextId + 1
    /\ asks0' = asks
    /\ bids0' = bids
    /\ q0' = quantity
    /\ UNCHANGED <<asks, bids, rested, filled>>

\* The while condition and the two breaks of match_bid_order, on ask
\* ladder A and incoming order bid.
BidEntered(A, bid) ==
    /\ bid.quantity > 0
    /\ DOMAIN A # {}
    /\ ~BidBlocked(BestAsk(A), bid.price)

\* The block that computes should_remove_price, on ask ladder A, incoming
\* order bid and trades ts: the ladder, order and trades it leaves, its
\* value, and the ids of the resting orders it popped.
BidBlock(A, bid, ts) ==
    LET ask_price == BestAsk(A)
        ask_orders == A[ask_price]
    IN  IF ask_orders # <<>>
        THEN LET ask == Head(ask_orders)
                 trade_quantity == TradeQuantity(bid.quantity, ask.quantity)
                 after == QueueAfter(ask_orders, trade_quantity)
             IN  [asks   |-> [A EXCEPT ![ask_price] = after],
                  order  |-> [bid EXCEPT !.quantity = TakerAfter(@, trade_quantity)],
                  trades |-> Append(ts, MakeTrade(ask, bid, ask_price, trade_quantity)),
                  should_remove_price |-> (after = <<>>),
                  popped |-> IF ask.quantity - trade_quantity = 0 THEN {ask.id} ELSE {}]
        ELSE [asks |-> A, order |-> bid, trades |-> ts,
              should_remove_price |-> TRUE, popped |-> {}]

\* if should_remove_price { self.asks.remove(&bid.price); }
BidRemoved(A, bid, remove) ==
    IF remove THEN MapRemove(A, BidRemoveKey(bid, BestAsk(A))) ELSE A

\* if bid.quantity > 0 { self.bids.entry(bid.price)...push_back(bid) }
BidRested(B, bid) == IF HasRemainder(bid.quantity) THEN PushBack(B, bid) ELSE B

BidLoopEntered == BidEntered(asks, order)

\* One pass through the block that computes should_remove_price.
BidMatch ==
    /\ pc = "bid_loop"
    /\ BidLoopEntered
    /\ LET r == BidBlock(asks, order, trades)
       IN  /\ asks' = r.asks
           /\ order' = r.order
           /\ trades' = r.trades
           /\ should_remove_price' = r.should_remove_price
           /\ filled' = filled \cup r.popped
    /\ pc' = "bid_remove"
    /\ UNCHANGED <<bids, nextId, asks0, bids0, q0, rested>>

\* The end of the iteration: the conditional removal of a price level.
BidRemove ==
    /\ pc = "bid_remove"
    /\ asks' = BidRemoved(asks, order, should_remove_price)
    /\ should_remove_price' = FALSE
    /\ pc' = "bid_loop"
    /\ UNCHANGED <<bids, order, trades, nextId, asks0, bids0, q0, rested, filled>>

\* The loop is left; the remainder, if any, rests; the trades are returned.
BidReturn ==
    /\ pc = "bid_loop"
    /\ ~BidLoopEntered
    /\ bids' = BidRested(bids, order)
    /\ rested' = IF HasRemainder(order.quantity)
                 THEN rested \cup {[id |-> order.id, side |-> "Bid", price |-> order.price]}
                 ELSE rested
    /\ pc' = "idle"
    /\ UNCHANGED <<asks, order, trades, should_remove_price, nextId, asks0, bids0, q0, filled>>

\* The while condition and the two breaks of match_ask_order, on bid
\* ladder B and incoming order ask.
AskEntered(B, ask) ==
    /\ ask.quantity > 0
    /\ DOMAIN B # {}
    /\ ~AskBlocked(BestBid(B), ask.price)

\* The matching part of one iteration of match_ask_order.
AskBlock(B, ask, ts) ==
    LET bid_price == BestBid(B)
        bid_orders == B[bid_price]
    IN  IF bid_orders # <<>>
        THEN LET bid == Head(bid_orders)
                 trade_quantity == TradeQuantity(ask.quantity, bid.quantity)
                 after == QueueAfter(bid_orders, trade_quantity)
             IN  [bids   |-> [B EXCEPT ![bid_price] = after],
                  order  |-> [ask EXCEPT !.quantity = TakerAfter(@, trade_quantity)],
                  trades |-> Append(ts, MakeTrade(bid, ask, bid_price, trade_quantity)),
                  popped |-> IF bid.quantity - trade_quantity = 0 THEN {bid.id} ELSE {}]
        ELSE [bids |-> B, order |-> ask, trades |-> ts, popped |-> {}]

\* if bid_orders.is_empty() { self.bids.remove(&ask.price); }
AskRemoved(B, ask) ==
    IF B[BestBid(B)] = <<>> THEN MapRemove(B, AskRemoveKey(ask, BestBid(B))) ELSE B

\* if ask.quantity > 0 { self.asks.entry(ask.price)...push_back(ask) }
AskRested(A, ask) == IF HasRemainder(ask.quantity) THEN PushBack(A, ask) ELSE A

AskLoopEntered == AskEntered(bids, order)

AskMatch ==
    /\ pc = "ask_loop"
    /\ AskLoopEntered
    /\ LET r == AskBlock(bids, order, trades)
       IN  /\ bids' = r.bids
           /\ order' = r.order
           /\ trades' = r.trades
           /\ filled' = filled \cup r.popped
    /\ pc' = "ask_remove"
    /\ UNCHANGED <<asks, should_remove_price, nextId, asks0, bids0, q0, rested>>

\* The end of the iteration: the conditional removal of a price level.
AskRemove ==
    /\ pc = "ask_remove"
    /\ bids' = AskRemoved(bids, order)
    /\ pc' = "ask_loop"
    /\ UNCHANGED <<asks, order, trades, should_remove_price, nextId, asks0, bids0, q0,
                   rested, filled>>

\* The loop is left; the remainder, if any, rests; the trades are returned.
AskReturn ==
    /\ pc = "ask_loop"
    /\ ~AskLoopEntered
    /\ asks' = AskRested(asks, order)
    /\ rested' = IF HasRemainder(order.quantity)
                 THEN rested \cup {[id |-> order.id, side |-> "Ask", price |-> order.price]}
                 ELSE rested
    /\ pc' = "idle"
    /\ UNCHANGED <<bids, order, trades, should_remove_price, nextId, asks0, bids0, q0, filled>>

\* The caller: at most MaxOrders orders, of any side, price and quantity.
Call ==
    /\ nextId <= MaxOrders
    /\ \E side \in Sides, price \in Prices, quantity \in Quantities :
            AddOrder(side, price, quantity)

Next ==
    \/ Call
    \/ BidMatch
    \/ BidRemove
    \/ BidReturn
    \/ AskMatch
    \/ AskRemove
    \/ AskReturn

Spec == Init /\ [][Next]_vars

\* A caller that sends only orders of quantity 1, and more of them.
CallUnit ==
    /\ nextId <= MaxUnitOrders
    /\ \E side \in Sides, price \in Prices : AddOrder(side, price, 1)

NextUnit ==
    \/ CallUnit
    \/ BidMatch
    \/ BidRemove
    \/ BidReturn
    \/ AskMatch
    \/ AskRemove
    \/ AskReturn

UnitSpec == Init /\ [][NextUnit]_vars

\* add_order is synchronous: a call that was entered keeps running.
FairSpec == Spec /\ WF_vars(BidMatch \/ BidRemove \/ BidReturn \/ AskMatch \/ AskRemove \/ AskReturn)

----------------------------------------------------------------------------
\* Vocabulary of the properties.

\* The last call of add_order has returned.
Returned == pc = "idle" /\ nextId > 1

InCall == pc # "idle"

RECURSIVE SumQty(_)
SumQty(ts) == IF ts = <<>> THEN 0 ELSE Head(ts).quantity + SumQty(Tail(ts))

\* The positions <<key, index>> of the orders stored in a ladder.
Entries(m) == UNION {{<<k, i>> : i \in 1..Len(m[k])} : k \in DOMAIN m}

OrderAt(m, e) == m[e[1]][e[2]]

\* The ladder opposing the incoming order and the ladder of its own side,
\* as they are now and as they were when the call was entered.
Opp  == IF order.side = "Bid" THEN asks  ELSE bids
Opp0 == IF order.side = "Bid" THEN asks0 ELSE bids0
Own  == IF order.side = "Bid" THEN bids  ELSE asks
Own0 == IF order.side = "Bid" THEN bids0 ELSE asks0

\* Total quantity of this call's trades that name id as maker.
MakerTraded(id) ==
    LET IsMaker(t) == t.maker_order_id = id
    IN  SumQty(SelectSeq(trades, IsMaker))

----------------------------------------------------------------------------
\* C3: after a call has returned, every order that rested on the opposing
\* ladder before the call either still rests at the same price with its
\* quantity reduced by exactly what this call's trades took from it, or is
\* gone with those trades covering its whole quantity.
C3_OnlyMatchedLeaves ==
    Returned =>
        \A e \in Entries(Opp0) :
            LET k == e[1]
                o == OrderAt(Opp0, e)
                t == MakerTraded(o.id)
            IN  \/ /\ k \in DOMAIN Opp
                   /\ \E i \in 1..Len(Opp[k]) :
                        /\ Opp[k][i].id = o.id
                        /\ Opp[k][i].quantity = o.quantity - t
                \/ /\ \A e2 \in Entries(Opp) : OrderAt(Opp, e2).id # o.id
                   /\ t = o.quantity

\* C4: after a call has returned, no ladder holds a price key whose queue
\* is empty.
C4_NoEmptyLevel ==
    Returned =>
        /\ \A k \in DOMAIN asks : asks[k] # <<>>
        /\ \A k \in DOMAIN bids : bids[k] # <<>>

\* C5: after a call has returned, if both ladders are non-empty then every
\* bid price key is strictly below every ask price key.
C5_NoCross ==
    (Returned /\ DOMAIN asks # {} /\ DOMAIN bids # {}) =>
        \A b \in DOMAIN bids, a \in DOMAIN asks : b < a

\* A call returned with trades and left orders resting on both ladders.
C5_Witness ==
    /\ Returned
    /\ Entries(asks) # {}
    /\ Entries(bids) # {}
    /\ trades # <<>>

\* C6: after a call on an order of quantity q >= 0 has returned, the trades
\* sum to at most q, and its own ladder is the ladder of before the call
\* with, exactly when the remainder q - sum is positive, the order appended
\* at its limit price with that remainder as quantity.
C6_Conservation ==
    (Returned /\ q0 >= 0) =>
        LET s == SumQty(trades)
            r == q0 - s
        IN  /\ s <= q0
            /\ order.quantity = r
            /\ Own = IF r > 0
                     THEN PushBack(Own0, [id |-> order.id, price |-> order.price,
                                          quantity |-> r, side |-> order.side])
                     ELSE Own0

\* A call returned that traded part of its order and left the rest resting.
C6_Witness ==
    /\ Returned
    /\ trades # <<>>
    /\ SumQty(trades) < q0
    /\ order.price \in DOMAIN Own
    /\ Own[order.price][Len(Own[order.price])].id = order.id

\* C10: a call on an order of quantity <= 0 never enters a matching loop,
\* produces no trade and leaves both ladders as they were.
C10_NonPositiveDiscarded ==
    (nextId > 1 /\ q0 <= 0) =>
        /\ pc \in {"idle", "bid_loop", "ask_loop"}
        /\ trades = <<>>
        /\ asks = asks0
        /\ bids = bids0

\* A call with a negative quantity returned although the opposing ladder
\* held an order at a price its limit accepts.
C10_Witness ==
    /\ Returned
    /\ q0 < 0
    /\ Entries(Opp) # {}
    /\ \E k \in DOMAIN Opp : IF order.side = "Bid" THEN k <= order.price ELSE k >= order.price

\* Total quantity resting in ladder m at the price keys in S.
RECURSIVE SumLevels(_, _)
SumLevels(m, S) ==
    IF S = {} THEN 0
    ELSE LET k == SetMin(S) IN SumQty(m[k]) + SumLevels(m, S \ {k})

\* The price keys of the opposing ladder that the incoming order's limit accepts.
Acceptable(m) ==
    {k \in DOMAIN m : IF order.side = "Bid" THEN k <= order.price ELSE k >= order.price}

\* C1: every call on an order of positive price and positive quantity
\* returns.
C1_Terminates == (InCall /\ q0 > 0 /\ order.price > 0) ~> (pc = "idle")

\* What C2 says of a call that has returned.
MatchedAll == SumQty(trades) = Min(q0, SumLevels(Opp0, Acceptable(Opp0)))

\* C2: every call on an order of quantity q > 0 returns, and returns trades
\* whose quantities sum to exactly min(q, total quantity resting on the
\* opposing ladder at prices the limit accepts).
C2_MatchUntilExhaustedOrBlocked ==
    /\ [][(InCall /\ q0 > 0 /\ pc' = "idle") => MatchedAll']_vars
    /\ (InCall /\ q0 > 0) ~> (pc = "idle")

----------------------------------------------------------------------------
\* Vocabulary of the properties about single matches.

Last(q) == q[Len(q)]

\* This step of the running call emits a trade.
Emits == InCall /\ trades' # trades

\* Price a is strictly better than price b for the incoming order.
Better(a, b) == IF order.side = "Bid" THEN a < b ELSE a > b

\* The limit of the incoming order accepts price a.
WithinLimit(a) == IF order.side = "Bid" THEN a <= order.price ELSE a >= order.price

\* The side of the resting orders the incoming order is matched against.
MakerSide == IF order.side = "Bid" THEN "Ask" ELSE "Bid"

\* C7: the trades of a call are appended one by one in the order of the
\* matches; along the list no trade has a strictly better price than an
\* earlier one; every trade price is within the incoming limit; and a
\* match is never made while an order rests at a strictly better price.
C7_PricePriority ==
    /\ [](nextId > 1 =>
            \A j \in 1..Len(trades) :
                /\ WithinLimit(trades[j].price)
                /\ \A i \in 1..(j - 1) : ~Better(trades[j].price, trades[i].price))
    /\ [][Emits =>
            /\ Len(trades') = Len(trades) + 1
            /\ SubSeq(trades', 1, Len(trades)) = trades
            /\ \A e \in Entries(Opp) : ~Better(e[1], Last(trades').price)]_vars

\* A match was made at the best price while an order at a worse price,
\* also within the limit, was resting.
C7_Witness ==
    /\ trades # <<>>
    /\ \E e \in Entries(Opp0) : WithinLimit(e[1]) /\ Better(trades[1].price, e[1])

\* The ids of a queue ascend: ids are handed out in arrival order.
Ascending(q) == \A i, j \in 1..Len(q) : i < j => q[i].id < q[j].id

\* C8: every queue is in arrival order, and an order is matched only when
\* every order that rested earlier at the same price on the same side has
\* been fully filled.
C8_TimePriority ==
    /\ [](/\ \A k \in DOMAIN asks : Ascending(asks[k])
          /\ \A k \in DOMAIN bids : Ascending(bids[k]))
    /\ [][Emits =>
            LET t == Last(trades')
            IN  \A r \in rested :
                    (r.side = MakerSide /\ r.price = t.price /\ r.id < t.maker_order_id)
                        => r.id \in filled]_vars

\* C9: every trade names as maker the front order of the best opposing
\* level, as taker the incoming order, as price that resting order's price
\* and as quantity the smaller of the two remaining quantities.
C9_MakerPricing ==
    [][Emits =>
        LET best  == IF order.side = "Bid" THEN SetMin(DOMAIN Opp) ELSE SetMax(DOMAIN Opp)
            front == Head(Opp[best])
        IN  /\ Opp[best] # <<>>
            /\ trades' = Append(trades,
                    [maker_order_id |-> front.id,
                     taker_order_id |-> order.id,
                     price          |-> front.price,
                     quantity       |-> IF order.quantity < front.quantity
                                        THEN order.quantity ELSE front.quantity])]_vars

\* A trade was made at a price that differs from the incoming limit, for
\* less than the resting order held.
C9_Witness ==
    /\ trades # <<>>
    /\ Last(trades).price # order.price
    /\ \E e \in Entries(Opp) : OrderAt(Opp, e).id = Last(trades).maker_order_id

----------------------------------------------------------------------------
\* C11: in every state, every order stored in either ladder has quantity
\* > 0; the step that brings a resting order to quantity 0 also takes it
\* out of its queue.
C11_PositiveResting ==
    /\ \A e \in Entries(asks) : OrderAt(asks, e).quantity > 0
    /\ \A e \in Entries(bids) : OrderAt(bids, e).quantity > 0

\* A match has just consumed a resting order entirely, behind which
\* another order waits in the same queue.
C11_Witness ==
    /\ pc \in {"bid_remove", "ask_remove"}
    /\ trades # <<>>
    /\ trades[Len(trades)].maker_order_id \in filled
    /\ \E k \in DOMAIN Opp0 :
            /\ Len(Opp0[k]) >= 2
            /\ Opp0[k][1].id = trades[Len(trades)].maker_order_id
            /\ k \in DOMAIN Opp
            /\ Opp[k] = Tail(Opp0[k])

----------------------------------------------------------------------------
\* The mirror image: sides swapped, price p reflected to MaxPrice + 1 - p.

MirrorPrice(p) == MaxPrice + 1 - p

MirrorSide(side) == IF side = "Bid" THEN "Ask" ELSE "Bid"

MirrorOrder(o) == [o EXCEPT !.price = MirrorPrice(@), !.side = MirrorSide(@)]

MirrorQueue(q) == [i \in 1..Len(q) |-> MirrorOrder(q[i])]

MirrorLadder(m) ==
    [k \in {MirrorPrice(p) : p \in DOMAIN m} |-> MirrorQueue(m[MirrorPrice(k)])]

MirrorTrades(ts) == [i \in 1..Len(ts) |-> [ts[i] EXCEPT !.price = MirrorPrice(@)]]

\* C12: every step of a call is matched by the same step of the other
\* matcher on the mirror image: where the bid matcher passes its block,
\* removes a level or leaves the loop and rests, the ask matcher does the
\* same on the mirrored book and order, with the mirrored result, and the
\* other way round.  Mirrored call sequences therefore pass through
\* mirrored states, return or loop alike, and return mirrored trades.
C12_MirrorSymmetry ==
    [][/\ (pc = "bid_loop" /\ pc' = "bid_remove") =>
            /\ AskEntered(MirrorLadder(asks), MirrorOrder(order))
            /\ LET r == AskBlock(MirrorLadder(asks), MirrorOrder(order), MirrorTrades(trades))
               IN  /\ r.bids = MirrorLadder(asks')
                   /\ r.order = MirrorOrder(order')
                   /\ r.trades = MirrorTrades(trades')
            /\ bids' = bids
       /\ (pc = "bid_remove" /\ pc' = "bid_loop") =>
            /\ AskRemoved(MirrorLadder(asks), MirrorOrder(order)) = MirrorLadder(asks')
            /\ <<bids', order', trades'>> = <<bids, order, trades>>
       /\ (pc = "bid_loop" /\ pc' = "idle") =>
            /\ ~AskEntered(MirrorLadder(asks), MirrorOrder(order))
            /\ AskRested(MirrorLadder(bids), MirrorOrder(order)) = MirrorLadder(bids')
            /\ <<asks', order', trades'>> = <<asks, order, trades>>
       /\ (pc = "ask_loop" /\ pc' = "ask_remove") =>
            /\ BidEntered(MirrorLadder(bids), MirrorOrder(order))
            /\ LET r == BidBlock(MirrorLadder(bids), MirrorOrder(order), MirrorTrades(trades))
               IN  /\ r.asks = MirrorLadder(bids')
                   /\ r.order = MirrorOrder(order')
                   /\ r.trades = MirrorTrades(trades')
                   /\ BidRemoved(r.asks, r.order, r.should_remove_price)
                        = MirrorLadder(AskRemoved(bids', order'))
            /\ asks' = asks
       /\ (pc = "ask_remove" /\ pc' = "ask_loop") =>
            /\ \E remove \in BOOLEAN :
                    BidRemoved(MirrorLadder(bids), MirrorOrder(order), remove) = MirrorLadder(bids')
            /\ <<asks', order', trades'>> = <<asks, order, trades>>
       /\ (pc = "ask_loop" /\ pc' = "idle") =>
            /\ ~BidEntered(MirrorLadder(bids), MirrorOrder(order))
            /\ BidRested(MirrorLadder(asks), MirrorOrder(order)) = MirrorLadder(asks')
            /\ <<bids', order', trades'>> = <<bids, order, trades>>]_vars

\* A call crossed a resting order at a price other than its limit and
\* removed a level of the opposing ladder on the way.
C12_Witness ==
    /\ Returned
    /\ trades # <<>>
    /\ trades[1].price # order.price
    /\ DOMAIN Opp # DOMAIN Opp0

----------------------------------------------------------------------------
\* Vocabulary of the properties about resting orders.

\* The price levels of a ladder at which an order rests.
RestingKeys(m) == {k \in DOMAIN m : m[k] # <<>>}

\* The resting orders of a ladder, level by level.
RestingOrders(m) == [k \in RestingKeys(m) |-> m[k]]

\* When the call was entered no order rested on the opposing ladder at a
\* price the incoming limit accepts: the ladder held no order, or its best
\* price was not acceptable.
PriceBlocked0 == \A k \in RestingKeys(Opp0) : ~WithinLimit(k)

\* Ladder m with order o added behind the orders of its level o.price.
WithAppended(m, o) ==
    [k \in (DOMAIN m) \cup {o.price} |->
        IF k # o.price THEN m[k]
        ELSE (IF k \in DOMAIN m THEN m[k] ELSE <<>>) \o <<o>>]

\* The incoming order as handed to add_order.
Incoming == [id |-> order.id, price |-> order.price, quantity |-> q0, side |-> order.side]

\* What C13 says of the call when it returns.
BlockedRested ==
    /\ trades = <<>>
    /\ RestingOrders(Opp) = RestingOrders(Opp0)
    /\ Own = WithAppended(Own0, Incoming)

\* C13: a call on an order of quantity > 0 that finds no resting order at
\* an acceptable price returns, with zero trades, the opposing resting
\* orders unchanged, and the order appended with its full quantity at the
\* back of the level at its limit price on its own ladder.
C13_BlockedRests ==
    /\ [][(InCall /\ q0 > 0 /\ PriceBlocked0 /\ pc' = "idle") => BlockedRested']_vars
    /\ (InCall /\ q0 > 0 /\ PriceBlocked0) ~> (pc = "idle")

----------------------------------------------------------------------------
\* The best level of the opposing ladder at which an order rested when the
\* call was entered, and the order at its front.
BestResting0 ==
    IF order.side = "Bid" THEN SetMin(RestingKeys(Opp0)) ELSE SetMax(RestingKeys(Opp0))

Front0 == Head(Opp0[BestResting0])

\* The incoming order can be matched and is smaller than the front order
\* of the best opposing level.
SmallerThanFront ==
    /\ nextId > 1
    /\ q0 > 0
    /\ RestingKeys(Opp0) # {}
    /\ WithinLimit(BestResting0)
    /\ q0 < Front0.quantity

\* The incoming order is priced exactly at the best opposing level.
ExactAtLevel ==
    /\ nextId > 1
    /\ q0 > 0
    /\ RestingKeys(Opp0) # {}
    /\ order.price = BestResting0

\* C14: when the incoming order is smaller than the front order of the
\* best opposing level, that maker stays at the front of its level with its
\* quantity reduced by what the call traded with it, and the call returns
\* exactly one trade, at the maker's price for the incoming quantity,
\* without resting.  When an order priced exactly at the best opposing
\* level returns (the maker at its front partially filled before or not),
\* its first trade is with that maker for the smaller of the two
\* quantities, and the level is gone if the order covered all of it.
C14_PartialFillKeepsPosition ==
    /\ SmallerThanFront =>
        /\ BestResting0 \in DOMAIN Opp
        /\ Opp[BestResting0] =
                <<[Front0 EXCEPT !.quantity = @ - MakerTraded(Front0.id)]>>
                    \o Tail(Opp0[BestResting0])
        /\ Returned =>
            /\ trades = <<[maker_order_id |-> Front0.id,
                           taker_order_id |-> order.id,
                           price          |-> Front0.price,
                           quantity       |-> q0]>>
            /\ Own = Own0
    /\ (ExactAtLevel /\ Returned) =>
        /\ trades # <<>>
        /\ trades[1] = [maker_order_id |-> Front0.id,
                        taker_order_id |-> order.id,
                        price          |-> Front0.price,
                        quantity       |-> IF q0 < Front0.quantity THEN q0
                                           ELSE Front0.quantity]
        /\ q0 >= SumQty(Opp0[BestResting0]) => BestResting0 \notin DOMAIN Opp

----------------------------------------------------------------------------
\* C15: a call leaves the ladder of its own side as it was while it runs,
\* and when it has returned that ladder is either still as it was or as it
\* was with the incoming order, at its remaining quantity, added behind
\* the orders of the level at its limit price.
C15_SameSideFrame ==
    nextId > 1 =>
        /\ InCall => Own = Own0
        /\ Returned => \/ Own = Own0
                       \/ Own = WithAppended(Own0, order)

\* A call returned that queued its order behind an order already resting
\* at its limit price, on a book that also holds opposing orders.
C15_Witness ==
    /\ Returned
    /\ Entries(Opp) # {}
    /\ order.price \in DOMAIN Own0
    /\ Own0[order.price] # <<>>
    /\ Own[order.price] = Own0[order.price] \o <<order>>

\* A step that passes the matching block of a loop without leaving it.
PassesBlock ==
    /\ pc \in {"bid_loop", "ask_loop"}
    /\ pc' \in {"bid_remove", "ask_remove"}

\* C16: every trade has quantity > 0, and every pass through the matching
\* block of a loop that does not leave the loop emits exactly one trade.
C16_PositiveTrades ==
    /\ [](\A i \in 1..Len(trades) : trades[i].quantity > 0)
    /\ [][PassesBlock => Len(trades') = Len(trades) + 1]_vars

====
